---- MODULE Spec2Model ----
(***************************************************************************)
(* Model of the Ollama client of src/src/lib.rs: Ollama::new,              *)
(* Ollama::version, Ollama::available_models and Ollama::prompt, each one  *)
(* blocking exchange over a fresh TcpStream.                               *)
(*                                                                         *)
(* Text is a sequence of symbols.  A symbol is one character that matters  *)
(* to the code (a JSON structural character, a quote, a backslash, a line  *)
(* break, a blank) or a run of ordinary characters taken as a unit (a      *)
(* word such as "response", the status line).  No word contains a          *)
(* structural character, no two adjacent words spell the word "version",   *)
(* and in the texts drawn below a backslash is never followed by a word of *)
(* more than one letter.                                                   *)
(***************************************************************************)
EXTENDS Integers, Sequences, FiniteSets, TLC

----------------------------------------------------------------------------
(* Characters *)
LB == "{"
RB == "}"
LK == "["
RK == "]"
CL == ":"
CM == ","
QT == "\""
BS == "\\"
LF == "\n"
CR == "\r"
SP == " "
TAB == "\t"
FF == "\f"

(* The four characters serde_json skips between tokens. *)
JsonWs == {SP, LF, CR, TAB}
(* char::is_whitespace, what str::trim strips: JsonWs and more. *)
RustWs == {SP, LF, CR, TAB, FF}
(* Characters below U+0020, which serde_json rejects raw inside a string. *)
Control == {LF, CR, TAB, FF}
Digits == {"7", "9"}

Min(a, b) == IF a < b THEN a ELSE b

(* &s[i..] with a 1-based first index *)
From(s, i) == SubSeq(s, i, Len(s))

----------------------------------------------------------------------------
(* str::find("\r\n\r\n"): the first index where the pattern starts, 0 for  *)
(* None.                                                                   *)
CRLF == <<CR, LF>>
Boundary == <<CR, LF, CR, LF>>

MatchAt(s, i) ==
    /\ i + 3 <= Len(s)
    /\ SubSeq(s, i, i + 3) = Boundary

RECURSIVE FindFrom(_, _)
FindFrom(s, i) ==
    IF i + 3 > Len(s) THEN 0
    ELSE IF MatchAt(s, i) THEN i
    ELSE FindFrom(s, i + 1)

find(s) == FindFrom(s, 1)

(* str::lines(): split at every "\n", drop one "\r" before it, and yield   *)
(* no final empty line; a last line that no "\n" ends keeps its "\r".      *)
StripCR(l) ==
    IF Len(l) > 0 /\ l[Len(l)] = CR THEN SubSeq(l, 1, Len(l) - 1) ELSE l

RECURSIVE LinesFrom(_, _, _)
LinesFrom(s, i, cur) ==
    IF i > Len(s) THEN (IF cur = <<>> THEN <<>> ELSE <<cur>>)
    ELSE IF s[i] = LF THEN <<StripCR(cur)>> \o LinesFrom(s, i + 1, <<>>)
    ELSE LinesFrom(s, i + 1, Append(cur, s[i]))

lines(s) == LinesFrom(s, 1, <<>>)

(* str::trim(): strip leading and trailing char::is_whitespace. *)
RECURSIVE TrimStart(_)
TrimStart(s) ==
    IF s # <<>> /\ Head(s) \in RustWs THEN TrimStart(Tail(s)) ELSE s

RECURSIVE TrimEnd(_)
TrimEnd(s) ==
    IF s # <<>> /\ s[Len(s)] \in RustWs
    THEN TrimEnd(SubSeq(s, 1, Len(s) - 1)) ELSE s

trim(s) == TrimEnd(TrimStart(s))

(* str::contains("version") *)
contains_version(l) == \E i \in 1..Len(l) : l[i] = "version"

----------------------------------------------------------------------------
(* serde_json::Value.  t is the variant, s the text of a String, Number,   *)
(* Bool, k the keys of an Object, a the members of an Object or Array.     *)
JNull == [t |-> "null", s |-> <<>>, k |-> <<>>, a |-> <<>>]
JStr(w) == [t |-> "str", s |-> w, k |-> <<>>, a |-> <<>>]
JNum(w) == [t |-> "num", s |-> w, k |-> <<>>, a |-> <<>>]
JBool(w) == [t |-> "bool", s |-> w, k |-> <<>>, a |-> <<>>]
JArr(vs) == [t |-> "arr", s |-> <<>>, k |-> <<>>, a |-> vs]
JObj(ks, vs) == [t |-> "obj", s |-> <<>>, k |-> ks, a |-> vs]

PFail == [ok |-> FALSE, v |-> JNull, i |-> 0]
POk(v, i) == [ok |-> TRUE, v |-> v, i |-> i]

RECURSIVE SkipWs(_, _)
SkipWs(s, i) ==
    IF i <= Len(s) /\ s[i] \in JsonWs THEN SkipWs(s, i + 1) ELSE i

(* The escapes of a JSON string: the character after the backslash and     *)
(* what it stands for.                                                     *)
EscapeOf(c) ==
    CASE c = QT -> QT
      [] c = BS -> BS
      [] c = "/" -> "/"
      [] c = "n" -> LF
      [] c = "r" -> CR
      [] c = "t" -> TAB
      [] c = "f" -> FF
      [] OTHER -> ""

(* The rest of a string, from the symbol after its opening quote. *)
RECURSIVE ParseStr(_, _, _)
ParseStr(s, i, acc) ==
    IF i > Len(s) THEN PFail
    ELSE IF s[i] = QT THEN POk(JStr(acc), i + 1)
    ELSE IF s[i] = BS THEN
        IF i + 1 > Len(s) \/ EscapeOf(s[i + 1]) = "" THEN PFail
        ELSE ParseStr(s, i + 2, Append(acc, EscapeOf(s[i + 1])))
    ELSE IF s[i] \in Control THEN PFail
    ELSE ParseStr(s, i + 1, Append(acc, s[i]))

RECURSIVE ParseNum(_, _, _)
ParseNum(s, i, acc) ==
    IF i <= Len(s) /\ s[i] \in Digits THEN ParseNum(s, i + 1, Append(acc, s[i]))
    ELSE POk(JNum(acc), i)

RECURSIVE ParseValue(_, _)
RECURSIVE ParseMembers(_, _, _, _)
RECURSIVE ParseElems(_, _, _)

(* One value starting at s[i], leading blanks skipped. *)
ParseValue(s, i0) ==
    LET i == SkipWs(s, i0) IN
    IF i > Len(s) THEN PFail
    ELSE IF s[i] = QT THEN ParseStr(s, i + 1, <<>>)
    ELSE IF s[i] \in Digits THEN ParseNum(s, i, <<>>)
    ELSE IF s[i] \in {"true", "false"} THEN POk(JBool(<<s[i]>>), i + 1)
    ELSE IF s[i] = "null" THEN POk(JNull, i + 1)
    ELSE IF s[i] = LB THEN
        LET j == SkipWs(s, i + 1) IN
        IF j <= Len(s) /\ s[j] = RB THEN POk(JObj(<<>>, <<>>), j + 1)
        ELSE ParseMembers(s, j, <<>>, <<>>)
    ELSE IF s[i] = LK THEN
        LET j == SkipWs(s, i + 1) IN
        IF j <= Len(s) /\ s[j] = RK THEN POk(JArr(<<>>), j + 1)
        ELSE ParseElems(s, j, <<>>)
    ELSE PFail

(* "key" : value, then a comma and more, or the closing brace. *)
ParseMembers(s, i, ks, vs) ==
    IF i > Len(s) \/ s[i] # QT THEN PFail
    ELSE
      LET key == ParseStr(s, i + 1, <<>>) IN
      IF ~key.ok THEN PFail
      ELSE
        LET c == SkipWs(s, key.i) IN
        IF c > Len(s) \/ s[c] # CL THEN PFail
        ELSE
          LET val == ParseValue(s, c + 1) IN
          IF ~val.ok THEN PFail
          ELSE
            LET e == SkipWs(s, val.i)
                ks2 == Append(ks, key.v.s)
                vs2 == Append(vs, val.v)
            IN  IF e > Len(s) THEN PFail
                ELSE IF s[e] = RB THEN POk(JObj(ks2, vs2), e + 1)
                ELSE IF s[e] = CM THEN ParseMembers(s, SkipWs(s, e + 1), ks2, vs2)
                ELSE PFail

(* value, then a comma and more, or the closing bracket. *)
ParseElems(s, i, vs) ==
    LET val == ParseValue(s, i) IN
    IF ~val.ok THEN PFail
    ELSE
      LET e == SkipWs(s, val.i)
          vs2 == Append(vs, val.v)
      IN  IF e > Len(s) THEN PFail
          ELSE IF s[e] = RK THEN POk(JArr(vs2), e + 1)
          ELSE IF s[e] = CM THEN
              LET n == SkipWs(s, e + 1) IN
              IF n <= Len(s) /\ s[n] = RK THEN PFail ELSE ParseElems(s, n, vs2)
          ELSE PFail

(* serde_json::from_str::<Value>: one value and nothing but blanks after. *)
from_str(s) ==
    LET r == ParseValue(s, 1) IN
    IF r.ok /\ SkipWs(s, r.i) > Len(s) THEN [ok |-> TRUE, v |-> r.v]
    ELSE [ok |-> FALSE, v |-> JNull]

(* value[key] and Value::get(key): the member of an object, the last one   *)
(* when the key is repeated; Null (None) otherwise.                        *)
HasKey(v, key) == v.t = "obj" /\ \E i \in 1..Len(v.k) : v.k[i] = <<key>>

Index(v, key) ==
    IF HasKey(v, key)
    THEN v.a[CHOOSE i \in 1..Len(v.k) :
                 /\ v.k[i] = <<key>>
                 /\ \A j \in (i + 1)..Len(v.k) : v.k[j] # <<key>>]
    ELSE JNull

(* Value::as_str / as_array: is it that variant. *)
is_str(v) == v.t = "str"
is_array(v) == v.t = "arr"

----------------------------------------------------------------------------
(* Result<_, std::io::Error> and the String version returns.  kind is the  *)
(* io::ErrorKind of an Err, msg the fixed part of its message, text the    *)
(* String of an Ok or the text the message quotes, list the Vec of an Ok.  *)
OkText(t) == [ok |-> TRUE, kind |-> "Ok", msg |-> "", text |-> t, list |-> <<>>]
OkList(l) == [ok |-> TRUE, kind |-> "Ok", msg |-> "", text |-> <<>>, list |-> l]
Err(kind, msg, t) == [ok |-> FALSE, kind |-> kind, msg |-> msg, text |-> t, list |-> <<>>]
NoResult == [ok |-> FALSE, kind |-> "none", msg |-> "", text |-> <<>>, list |-> <<>>]

MissingBody == "Invalid HTTP response (missing body)"
JsonParseError == "JSON parse error: "
InvalidModels == "Invalid models format in response"
NoResponseField == "No 'response' field in response: "

(* The kinds the operating system reports; ErrorKind::Other is kept for    *)
(* errors built with Error::new and is never one of them.                  *)
ConnectErrors == {"ConnectionRefused", "TimedOut"}
WriteErrors == {"BrokenPipe", "ConnectionReset"}
ReadErrors == {"ConnectionReset", "InvalidData"}

----------------------------------------------------------------------------
(* Ollama::version, from the response read to the String returned. *)
RECURSIVE FindVersionLine(_)
FindVersionLine(ls) ==
    IF ls = <<>> THEN <<"invalid response">>
    ELSE IF contains_version(Head(ls)) THEN Head(ls)
    ELSE FindVersionLine(Tail(ls))

(* version with the scan for "version" run over the body's lines only. *)
version_parse_body_scan(response) ==
    LET start == find(response)
        json_body == trim(From(response, start + 4))
        parsed == from_str(json_body)
    IN  IF start # 0 /\ parsed.ok /\ is_str(Index(parsed.v, "version"))
        THEN Index(parsed.v, "version").s
        ELSE FindVersionLine(lines(IF start # 0 THEN json_body ELSE response))

version_parse(response) ==
    LET start == find(response)
        json_body == trim(From(response, start + 4))
        parsed == from_str(json_body)
    IN  IF start # 0 /\ parsed.ok /\ is_str(Index(parsed.v, "version"))
        THEN Index(parsed.v, "version").s
        ELSE FindVersionLine(lines(response))

(* Ollama::available_models, from the response read to the Result. *)
(* filter_map turned map_while: stops at the first element with no name. *)
RECURSIVE filter_map_name_stops(_)
filter_map_name_stops(ms) ==
    IF ms = <<>> THEN <<>>
    ELSE LET m == Head(ms) IN
         IF HasKey(m, "name") /\ is_str(Index(m, "name"))
         THEN <<Index(m, "name").s>> \o filter_map_name_stops(Tail(ms))
         ELSE <<>>

RECURSIVE filter_map_name(_)
filter_map_name(ms) ==
    IF ms = <<>> THEN <<>>
    ELSE LET m == Head(ms) IN
         IF HasKey(m, "name") /\ is_str(Index(m, "name"))
         THEN <<Index(m, "name").s>> \o filter_map_name(Tail(ms))
         ELSE filter_map_name(Tail(ms))

(* available_models with a missing models array read as no models. *)
available_models_parse_lenient(response) ==
    LET start == find(response)
        json_body == From(response, start + 4)
        parsed == from_str(json_body)
    IN  IF start = 0 THEN Err("Other", MissingBody, <<>>)
        ELSE IF ~parsed.ok THEN Err("Other", JsonParseError, <<>>)
        ELSE IF ~is_array(Index(parsed.v, "models")) THEN OkList(<<>>)
        ELSE OkList(filter_map_name(Index(parsed.v, "models").a))

available_models_parse(response) ==
    LET start == find(response)
        json_body == From(response, start + 4)
        parsed == from_str(json_body)
    IN  IF start = 0 THEN Err("Other", MissingBody, <<>>)
        ELSE IF ~parsed.ok THEN Err("Other", JsonParseError, <<>>)
        ELSE IF ~is_array(Index(parsed.v, "models")) THEN Err("Other", InvalidModels, <<>>)
        ELSE OkList(filter_map_name(Index(parsed.v, "models").a))

(* Ollama::prompt, the request body built by format!. *)
prompt_body(model, prompt) ==
    <<LB, LF, SP, QT, "model", QT, CL, SP, QT>> \o model
      \o <<QT, CM, LF, SP, QT, "prompt", QT, CL, SP, QT>> \o prompt
      \o <<QT, CM, LF, SP, QT, "stream", QT, CL, SP, "false", LF, SP, RB>>

(* Ollama::prompt, the loop over the lines of the body. *)
(* The loop with full_text = chunk in place of full_text.push_str(chunk). *)
RECURSIVE push_chunks_overwrite(_, _)
push_chunks_overwrite(ls, full_text) ==
    IF ls = <<>> THEN full_text
    ELSE LET value == from_str(Head(ls)) IN
         IF value.ok /\ is_str(Index(value.v, "response"))
         THEN push_chunks_overwrite(Tail(ls), Index(value.v, "response").s)
         ELSE push_chunks_overwrite(Tail(ls), full_text)

RECURSIVE push_chunks(_, _)
push_chunks(ls, full_text) ==
    IF ls = <<>> THEN full_text
    ELSE LET value == from_str(Head(ls)) IN
         IF value.ok /\ is_str(Index(value.v, "response"))
         THEN push_chunks(Tail(ls), full_text \o Index(value.v, "response").s)
         ELSE push_chunks(Tail(ls), full_text)

(* prompt without the final is_empty test. *)
prompt_parse_unchecked(response) ==
    LET start == find(response)
        json_body == From(response, start + 4)
        by_line == push_chunks(lines(json_body), <<>>)
        parsed == from_str(json_body)
        full_text ==
            IF by_line # <<>> THEN by_line
            ELSE IF parsed.ok /\ is_str(Index(parsed.v, "response"))
                 THEN Index(parsed.v, "response").s
                 ELSE <<>>
    IN  IF start = 0 THEN Err("Other", MissingBody, <<>>)
        ELSE OkText(full_text)

(* Ollama::prompt, from the response read to the Result. *)
prompt_parse(response) ==
    LET start == find(response)
        json_body == From(response, start + 4)
        by_line == push_chunks(lines(json_body), <<>>)
        parsed == from_str(json_body)
        full_text ==
            IF by_line # <<>> THEN by_line
            ELSE IF parsed.ok /\ is_str(Index(parsed.v, "response"))
                 THEN Index(parsed.v, "response").s
                 ELSE <<>>
    IN  IF start = 0 THEN Err("Other", MissingBody, <<>>)
        ELSE IF full_text = <<>> THEN Err("Other", NoResponseField, json_body)
        ELSE OkText(full_text)

(* The request each operation writes: the request line, its headers, and   *)
(* for POST the length and the body.                                       *)
Request(o, model, prompt) ==
    IF o = "prompt"
    THEN [line |-> "POST /api/generate HTTP/1.1",
          headers |-> <<"Host: localhost", "Content-Type: application/json",
                        "Content-Length", "Connection: close">>,
          content_length |-> Len(prompt_body(model, prompt)),
          body |-> prompt_body(model, prompt)]
    ELSE [line |-> IF o = "available_models" THEN "GET /api/tags HTTP/1.1"
                   ELSE "GET /api/version HTTP/1.1",
          headers |-> <<"Host: localhost", "Connection: close">>,
          content_length |-> 0,
          body |-> <<>>]

NoRequest == [line |-> "", headers |-> <<>>, content_length |-> 0, body |-> <<>>]

----------------------------------------------------------------------------
(* What the peer at 127.0.0.1:11434 may send back.                         *)
MaxLines == 2       \* lines of a version or generate body
MaxModels == 3      \* elements of a models array
ReadChunk == 40     \* symbols one read may deliver short of everything

Str(w) == <<QT>> \o w \o <<QT>>
Obj(key, val) == <<LB>> \o Str(<<key>>) \o <<CL>> \o val \o <<RB>>

StatusLine == <<"HTTP/1.1 200 OK">>
HeaderLine == <<"Content-Type: application/json">>

(* Every text of 1..n lines of frags, the lines joined by eol. *)
RECURSIVE Join(_, _)
Join(ls, eol) ==
    IF Len(ls) = 1 THEN ls[1] ELSE ls[1] \o eol \o Join(Tail(ls), eol)

Texts(frags, n, eol) ==
    UNION {{Join(ls, eol) : ls \in [1..k -> frags]} : k \in 1..n}

VersionLines ==
    { Obj("version", Str(<<"9.9.9">>)),
      Obj("version", Str(<<>>)),
      Obj("version", <<"7">>),
      <<FF>> \o Obj("version", Str(<<"0.1.2">>)),
      <<"ollama", SP, "version", SP, "is", SP, "0.1.2">> }

GenerateLines ==
    { Obj("response", Str(<<"Hel">>)),
      Obj("response", Str(<<"lo">>)),
      Obj("response", Str(<<>>)),
      Obj("response", <<"7">>),
      <<LB>> \o Str(<<"response">>) \o <<CL>>,
      Str(<<"Hi">>) \o <<RB>> }

ModelElems ==
    { Obj("name", Str(<<"a">>)),
      Obj("name", Str(<<"b">>)),
      Obj("notname", Str(<<"x">>)),
      Obj("name", <<"7">>),
      Str(<<"a">>) }

TagsBodies ==
    {Obj("models", <<LK, RK>>)}
    \cup {Obj("models", <<LK>> \o e \o <<RK>>) : e \in Texts(ModelElems, MaxModels, <<CM>>)}
    \cup { Obj("models", <<"7">>),
           Obj("tags", <<LK>> \o Obj("name", Str(<<"a">>)) \o <<RK>>),
           <<LK>> \o Obj("name", Str(<<"a">>)) \o <<RK>>,
           Obj("models", <<LK, RK>>) \o <<"oops">>,
           <<"oops">>,
           <<>> }

Bodies(o) ==
    IF o = "available_models" THEN TagsBodies
    ELSE LET frags == IF o = "prompt" THEN GenerateLines ELSE VersionLines
         IN  Texts(frags, MaxLines, <<LF>>) \cup Texts(frags, MaxLines, CRLF)

(* Heads whose last line is ended by the blank line; and the replies with  *)
(* bare line feeds for the blank line, with no body, with no line end, and *)
(* the empty reply.                                                        *)
Heads(o) ==
    IF o \in {"available_models", "prompt"}
    THEN {StatusLine \o CRLF \o HeaderLine}
    ELSE {StatusLine, StatusLine \o CRLF \o <<"Server:", SP, "ollama", SP, "version", SP, "0.1.2">>}

Unframed(o) ==
    {StatusLine \o <<LF, LF>> \o b : b \in Texts(IF o = "available_models"
                                                    THEN {Obj("models", <<LK, RK>>)}
                                                    ELSE IF o = "prompt" THEN GenerateLines
                                                    ELSE VersionLines, 1, <<LF>>)}
    \cup {StatusLine \o Boundary, StatusLine, <<>>}

Responses(o) ==
    {h \o Boundary \o b : h \in Heads(o), b \in Bodies(o)} \cup Unframed(o)

(* The arguments of prompt. *)
Models == {<<"llama3">>, <<>>}
Prompts == {<<"Hello, world!">>, <<"say", SP, QT, "hi", QT>>, <<BS, BS>>}
PromptArgs ==
    {<<<<"llama3">>, p>> : p \in Prompts} \cup {<<m, <<"Hello, world!">>>> : m \in Models}

----------------------------------------------------------------------------
VARIABLES
    pc,         \* where the running call is: idle, start, connected, written, done
    op,         \* the call: new, version, available_models, prompt
    model,      \* prompt's model argument
    prompt,     \* prompt's prompt argument
    spawned,    \* how Command::spawn of "ollama serve" ended in new
    request,    \* what write_all has put on the stream
    server,     \* what the peer sends before it closes
    response,   \* what read_to_string has read so far
    netlog,     \* the network events of the running call, in order
    result,     \* what the call returned
    handle      \* the Ollama value new returned

vars == <<pc, op, model, prompt, spawned, request, server, response, netlog, result, handle>>

NoHandle == [exists |-> FALSE, version |-> <<>>]

Init ==
    /\ pc = "idle"
    /\ op = "none"
    /\ model = <<>>
    /\ prompt = <<>>
    /\ spawned = "none"
    /\ request = NoRequest
    /\ server = <<>>
    /\ response = <<>>
    /\ netlog = <<>>
    /\ result = NoResult
    /\ handle = NoHandle

(* A call starts when no other is running; its locals start empty. *)
Begin(o, m, p, sp) ==
    /\ pc \in {"idle", "done"}
    /\ pc' = "start"
    /\ op' = o
    /\ model' = m
    /\ prompt' = p
    /\ spawned' = sp
    /\ request' = NoRequest
    /\ server' = <<>>
    /\ response' = <<>>
    /\ netlog' = <<>>
    /\ result' = NoResult

(* Ollama::new: spawn "ollama serve", ignore how that ended, go on into    *)
(* Self::version().                                                        *)
Call_new ==
    /\ \E sp \in {"ok", "failed"} : Begin("new", <<>>, <<>>, sp)
    /\ UNCHANGED handle

Call_version ==
    /\ Begin("version", <<>>, <<>>, "none")
    /\ UNCHANGED handle

Call_available_models ==
    /\ Begin("available_models", <<>>, <<>>, "none")
    /\ UNCHANGED handle

(* prompt takes &self: there is a handle. *)
Call_prompt ==
    /\ handle.exists
    /\ \E a \in PromptArgs : Begin("prompt", a[1], a[2], "none")
    /\ UNCHANGED handle

(* The call returns r after the events evs; new wraps the String of        *)
(* version in Ok(Ollama { version }).                                      *)
Return(r, evs) ==
    /\ pc' = "done"
    /\ result' = r
    /\ netlog' = netlog \o evs
    /\ handle' = IF op = "new" THEN [exists |-> TRUE, version |-> r.text] ELSE handle

IsVersion == op \in {"new", "version"}

(* TcpStream::connect *)
ConnectOk ==
    /\ pc = "start"
    /\ pc' = "connected"
    /\ netlog' = Append(netlog, "connect")
    /\ UNCHANGED <<op, model, prompt, spawned, request, server, response, result, handle>>

(* version with the connect error handed on, as the other two do. *)
ConnectFail_propagates ==
    /\ pc = "start"
    /\ \E e \in ConnectErrors : Return(Err(e, "os error", <<>>), <<"connect_fail">>)
    /\ UNCHANGED <<op, model, prompt, spawned, request, server, response>>

ConnectFail ==
    /\ pc = "start"
    /\ \E e \in ConnectErrors :
          Return(IF IsVersion THEN OkText(<<"not connected">>) ELSE Err(e, "os error", <<>>),
                 <<"connect_fail">>)
    /\ UNCHANGED <<op, model, prompt, spawned, request, server, response>>

(* stream.write_all(request.as_bytes()); the peer then settles its reply. *)
WriteOk ==
    /\ pc = "connected"
    /\ pc' = "written"
    /\ request' = Request(op, model, prompt)
    /\ server' \in Responses(op)
    /\ netlog' = Append(netlog, "write")
    /\ UNCHANGED <<op, model, prompt, spawned, response, result, handle>>

(* A failed write returns; the stream is dropped, which closes it, and    *)
(* nothing the peer had still to send arrives.                             *)
WriteFail ==
    /\ pc = "connected"
    /\ \E e \in WriteErrors :
          Return(IF IsVersion THEN OkText(<<"write error">>) ELSE Err(e, "os error", <<>>),
                 <<"write_fail", "close">>)
    /\ UNCHANGED <<op, model, prompt, spawned, request, server, response>>

(* stream.read_to_string(&mut response): reads until one returns 0. *)
Unread == From(server, Len(response) + 1)

ReadSome ==
    /\ pc = "written"
    /\ Unread # <<>>
    /\ \E n \in {Min(ReadChunk, Len(Unread)), Len(Unread)} :
          response' = response \o SubSeq(Unread, 1, n)
    /\ netlog' = Append(netlog, "read")
    /\ UNCHANGED <<pc, op, model, prompt, spawned, request, server, result, handle>>

(* A failed read tried again on the same stream. *)
ReadFail_retries ==
    /\ pc = "written"
    /\ Len(netlog) < 2 * Len(server) + 4
    /\ netlog' = Append(netlog, "read_fail")
    /\ UNCHANGED <<pc, op, model, prompt, spawned, request, server, response, result, handle>>

ReadFail ==
    /\ pc = "written"
    /\ \E e \in ReadErrors :
          Return(IF IsVersion THEN OkText(<<"read error">>) ELSE Err(e, "os error", <<>>),
                 <<"read_fail", "close">>)
    /\ server' = <<>>
    /\ response' = <<>>
    /\ UNCHANGED <<op, model, prompt, spawned, request>>

(* The read that returns 0; the rest of the function runs on what was      *)
(* read, and the stream is dropped on return.                              *)
Parsed ==
    CASE op = "available_models" -> available_models_parse(response)
      [] op = "prompt" -> prompt_parse(response)
      [] OTHER -> OkText(version_parse(response))

ReadEof ==
    /\ pc = "written"
    /\ Unread = <<>>
    /\ Return(Parsed, <<"eof", "close">>)
    /\ UNCHANGED <<op, model, prompt, spawned, request, server, response>>

Next ==
    \/ Call_new
    \/ Call_version
    \/ Call_available_models
    \/ Call_prompt
    \/ ConnectOk
    \/ ConnectFail
    \/ WriteOk
    \/ WriteFail
    \/ ReadSome
    \/ ReadFail
    \/ ReadEof

Spec == Init /\ [][Next]_vars

----------------------------------------------------------------------------
(* What the claims speak of. *)

(* The call o has returned. *)
Returned(o) == pc = "done" /\ op = o

(* The call o has read its response to the end and returned. *)
Completed(o) ==
    /\ Returned(o)
    /\ Len(netlog) >= 2
    /\ netlog[Len(netlog) - 1] = "eof"

HasBoundary(r) == \E i \in 1..(Len(r) - 3) : SubSeq(r, i, i + 3) = Boundary

(* The text after the first "\r\n\r\n" of r. *)
BodyOf(r) ==
    LET i == CHOOSE n \in 1..(Len(r) - 3) :
                 /\ SubSeq(r, n, n + 3) = Boundary
                 /\ \A m \in 1..(n - 1) : SubSeq(r, m, m + 3) # Boundary
    IN  SubSeq(r, i + 4, Len(r))

(* txt is JSON, an object whose member key is a string. *)
HasStringField(txt, key) ==
    LET j == from_str(txt) IN j.ok /\ HasKey(j.v, key) /\ Index(j.v, key).t = "str"

StringField(txt, key) == Index(from_str(txt).v, key).s

RECURSIVE Concat(_)
Concat(ss) == IF ss = <<>> THEN <<>> ELSE Head(ss) \o Concat(Tail(ss))

(* The response strings of the lines of b, one after the other. *)
LineChunks(b) ==
    Concat([i \in 1..Len(lines(b)) |->
               IF HasStringField(lines(b)[i], "response")
               THEN StringField(lines(b)[i], "response") ELSE <<>>])

Count(log, e) == Cardinality({i \in 1..Len(log) : log[i] = e})

OsErrors == ConnectErrors \cup WriteErrors \cup ReadErrors

----------------------------------------------------------------------------
(* C1: when the response prompt read has a header/body boundary, the text  *)
(* it returns is the response strings of the body's lines concatenated in  *)
(* line order; only when that is empty is it the response string of the    *)
(* body parsed whole.  Lines {"response":"Hel"} and {"response":"lo"} give *)
(* "Hello".                                                                *)
C1_PerLineThenWhole ==
    (Completed("prompt") /\ HasBoundary(response)) =>
        LET b == BodyOf(response)
            c == LineChunks(b)
        IN  /\ c # <<>> => result = OkText(c)
            /\ (c = <<>> /\ HasStringField(b, "response") /\ StringField(b, "response") # <<>>)
                  => result = OkText(StringField(b, "response"))
            /\ b = Obj("response", Str(<<"Hel">>)) \o <<LF>> \o Obj("response", Str(<<"lo">>))
                  => result = OkText(<<"Hel", "lo">>)

(* prompt returned the text of a body that no line of it gave. *)
C1_Witness ==
    /\ Completed("prompt")
    /\ HasBoundary(response)
    /\ LineChunks(BodyOf(response)) = <<>>
    /\ result = OkText(<<"Hi">>)

(* C2: prompt never returns Ok with an empty string; when the body gives   *)
(* no text by line or whole, it returns the error "No 'response' field in  *)
(* response: " followed by the raw body.                                   *)
C2_NonEmptyOrEmptyResponse ==
    /\ (Returned("prompt") /\ result.ok) => result.text # <<>>
    /\ (Completed("prompt") /\ HasBoundary(response)) =>
          LET b == BodyOf(response)
              none == /\ LineChunks(b) = <<>>
                      /\ ~(HasStringField(b, "response") /\ StringField(b, "response") # <<>>)
          IN  /\ none => result = Err("Other", NoResponseField, b)
              /\ ~none => (result.ok /\ result.text # <<>>)

(* prompt failed on a body whose only response string is empty. *)
C2_Witness ==
    /\ Completed("prompt")
    /\ HasBoundary(response)
    /\ BodyOf(response) = Obj("response", Str(<<>>))
    /\ result = Err("Other", NoResponseField, Obj("response", Str(<<>>)))

(* C3: prompt called with an empty model (the handle binds none) returns  *)
(* a NoModelSelected error and causes no network event at all.             *)
C3_NoModelNoNetwork ==
    (op = "prompt" /\ model = <<>>) =>
        /\ netlog = <<>>
        /\ pc = "done" => (~result.ok /\ result.kind = "NoModelSelected")

(* C4: when the body available_models read is JSON with a models array,   *)
(* it returns Ok with the name strings of the elements that have one, in   *)
(* the array's order; [{name:a},{notname:x},{name:b}] gives [a, b].        *)
C4_NamesInOrder ==
    (/\ Completed("available_models")
     /\ HasBoundary(response)
     /\ from_str(BodyOf(response)).ok
     /\ Index(from_str(BodyOf(response)).v, "models").t = "arr") =>
        LET arr == Index(from_str(BodyOf(response)).v, "models").a
            named == SelectSeq(arr, LAMBDA m : HasKey(m, "name") /\ Index(m, "name").t = "str")
        IN  /\ result = OkList([i \in 1..Len(named) |-> Index(named[i], "name").s])
            /\ BodyOf(response) =
                  Obj("models", <<LK>> \o Obj("name", Str(<<"a">>)) \o <<CM>>
                                   \o Obj("notname", Str(<<"x">>)) \o <<CM>>
                                   \o Obj("name", Str(<<"b">>)) \o <<RK>>)
                  => result.list = << <<"a">>, <<"b">> >>

(* available_models returned [a, b] from an array of three elements. *)
C4_Witness ==
    /\ Completed("available_models")
    /\ HasBoundary(response)
    /\ Index(from_str(BodyOf(response)).v, "models").t = "arr"
    /\ Len(Index(from_str(BodyOf(response)).v, "models").a) = 3
    /\ result = OkList(<< <<"a">>, <<"b">> >>)

(* C5: available_models returns the error of connect when the socket       *)
(* cannot be opened, and an error of kind Other, which no connect, write   *)
(* or read error has, when the response has no boundary, the body is not   *)
(* JSON or the JSON has no models array; it returns no list then.          *)
C5_ErrorKinds ==
    /\ (Returned("available_models") /\ netlog = <<"connect_fail">>) =>
          (~result.ok /\ result.kind \in ConnectErrors /\ result.list = <<>>)
    /\ (/\ Completed("available_models")
        /\ \/ ~HasBoundary(response)
           \/ ~from_str(BodyOf(response)).ok
           \/ Index(from_str(BodyOf(response)).v, "models").t # "arr") =>
          /\ ~result.ok
          /\ result.kind = "Other"
          /\ result.kind \notin OsErrors
          /\ result.list = <<>>
          /\ result.msg =
                IF ~HasBoundary(response) THEN MissingBody
                ELSE IF ~from_str(BodyOf(response)).ok THEN JsonParseError
                ELSE InvalidModels

(* available_models failed on JSON that has no models array. *)
C5_Witness ==
    /\ Completed("available_models")
    /\ HasBoundary(response)
    /\ from_str(BodyOf(response)).ok
    /\ ~HasKey(from_str(BodyOf(response)).v, "models")
    /\ result = Err("Other", InvalidModels, <<>>)

(* The first line of r that contains "version", or the sentinel. *)
FirstVersionLine(r) ==
    LET ls == lines(r)
        at == {i \in 1..Len(ls) : contains_version(ls[i])}
    IN  IF at = {} THEN <<"invalid response">>
        ELSE ls[CHOOSE i \in at : \A j \in at : i <= j]

(* C6, as stated: version returns the version string of the text after    *)
(* the boundary when that text is JSON with one; otherwise the first line  *)
(* of the response that contains "version"; otherwise "invalid response".  *)
C6_CascadeOnRawBody ==
    Completed("version") =>
        result = OkText(IF HasBoundary(response) /\ HasStringField(BodyOf(response), "version")
                        THEN StringField(BodyOf(response), "version")
                        ELSE FirstVersionLine(response))

(* C6, amended: the same cascade, the text after the boundary being put    *)
(* through str::trim before it is parsed.                                  *)
C6_CascadeOnTrimmedBody ==
    Completed("version") =>
        result = OkText(IF /\ HasBoundary(response)
                           /\ HasStringField(trim(BodyOf(response)), "version")
                        THEN StringField(trim(BodyOf(response)), "version")
                        ELSE FirstVersionLine(response))

(* version returned the version string of a body that is JSON only once   *)
(* trimmed.                                                                *)
C6_Witness ==
    /\ Completed("version")
    /\ HasBoundary(response)
    /\ ~HasStringField(BodyOf(response), "version")
    /\ HasStringField(trim(BodyOf(response)), "version")
    /\ result = OkText(<<"0.1.2">>)

(* C7: version always returns a string: "not connected" when connect       *)
(* fails, "write error" when the write fails, "read error" when the read   *)
(* fails, never an error.                                                  *)
C7_VersionSentinels ==
    Returned("version") =>
        /\ result.ok
        /\ netlog = <<"connect_fail">> => result = OkText(<<"not connected">>)
        /\ Count(netlog, "write_fail") > 0 => result = OkText(<<"write error">>)
        /\ Count(netlog, "read_fail") > 0 => result = OkText(<<"read error">>)

(* version returned "not connected". *)
C7_Witness ==
    /\ Returned("version")
    /\ netlog = <<"connect_fail">>
    /\ result = OkText(<<"not connected">>)

(* C8: new returns Ok whatever the spawn and the server did, and the       *)
(* version of the handle is not empty.                                     *)
C8_NewVersionNonEmpty ==
    Returned("new") =>
        /\ result.ok
        /\ handle.exists
        /\ handle.version # <<>>

(* The order the events of one call may come in. *)
Rank(e) ==
    CASE e \in {"connect", "connect_fail"} -> 1
      [] e \in {"write", "write_fail"} -> 2
      [] e = "read" -> 3
      [] e \in {"eof", "read_fail"} -> 4
      [] e = "close" -> 5

Failures == {"connect_fail", "write_fail", "read_fail"}

(* C9: the network events of a call come in the order connect, one write, *)
(* reads up to the end of the stream, close; a call connects at most once; *)
(* after a failed connect, write or read nothing follows but the close of  *)
(* the stream, and the call has returned: prompt and available_models with *)
(* the error, version with its sentinel.                                   *)
C9_OneExchangeNoRetry ==
    /\ \A i \in 1..Len(netlog) : \A j \in (i + 1)..Len(netlog) :
          \/ Rank(netlog[i]) < Rank(netlog[j])
          \/ netlog[i] = "read" /\ netlog[j] = "read"
    /\ \A i \in 1..Len(netlog) :
          /\ Rank(netlog[i]) = 2 => (i = 2 /\ netlog[1] = "connect")
          /\ Rank(netlog[i]) \in {3, 4} => (i > 2 /\ netlog[2] = "write")
          /\ netlog[i] = "close" => (i > 1 /\ netlog[i - 1] \in {"write_fail", "read_fail", "eof"})
          /\ netlog[i] \in Failures =>
                /\ pc = "done"
                /\ \A j \in (i + 1)..Len(netlog) : netlog[j] = "close"
                /\ IF op \in {"prompt", "available_models"}
                   THEN ~result.ok /\ result.kind \in OsErrors
                   ELSE result.ok /\ result.text \in
                           {<<"not connected">>, <<"write error">>, <<"read error">>}
    /\ Count(netlog, "write") > 0 => request.line # ""
    /\ pc \in {"idle", "start"} => netlog = <<>>
    /\ pc = "connected" => netlog = <<"connect">>
    /\ pc = "written" => (Count(netlog, "write") = 1 /\ netlog[Len(netlog)] \in {"write", "read"})
    /\ pc = "done" =>
          /\ netlog # <<>>
          /\ Count(netlog, "connect") = 1 => netlog[Len(netlog)] = "close"

(* A call returned after more than one read and the end of the stream. *)
C9_Witness ==
    /\ pc = "done"
    /\ Count(netlog, "read") > 1
    /\ netlog[Len(netlog) - 1] = "eof"
    /\ netlog[Len(netlog)] = "close"

(* C10: the body prompt writes is one JSON object whose model member is    *)
(* the model argument, whose prompt member is the prompt argument and      *)
(* whose stream member is false, whatever characters the arguments hold.   *)
C10_BodyIsJsonOfArguments ==
    (op = "prompt" /\ Count(netlog, "write") > 0) =>
        LET j == from_str(request.body) IN
        /\ j.ok
        /\ j.v.t = "obj"
        /\ j.v.k = << <<"model">>, <<"prompt">>, <<"stream">> >>
        /\ Index(j.v, "model") = JStr(model)
        /\ Index(j.v, "prompt") = JStr(prompt)
        /\ Index(j.v, "stream") = JBool(<<"false">>)

(* The same, for arguments free of quotes, backslashes and control         *)
(* characters.                                                             *)
PlainText(t) == \A i \in 1..Len(t) : t[i] \notin {QT, BS} \cup Control

BodyIsJsonOfPlainArguments ==
    (op = "prompt" /\ Count(netlog, "write") > 0 /\ PlainText(model) /\ PlainText(prompt)) =>
        LET j == from_str(request.body) IN
        /\ j.ok
        /\ Index(j.v, "model") = JStr(model)
        /\ Index(j.v, "prompt") = JStr(prompt)
        /\ Index(j.v, "stream") = JBool(<<"false">>)

====
